---- MODULE Spec2Model ----
(***************************************************************************)
(* Condor2Nav: CTargetXCSoarCommon::TaskProcess and PenaltyZonesProcess    *)
(* (src/src/targetXCSoarCommon.cpp) as a state machine.                    *)
(*                                                                         *)
(* One behaviour is one call of one of the two methods.  The values the    *)
(* task parser returns are drawn when the code reads them and are kept in  *)
(* `task` (per point) and `zones` (per penalty zone), so that the outputs  *)
(* can be related to the inputs.  Strings are sequences of characters or   *)
(* tokens.  Coordinates and altitudes feed no decision of the code and are    *)
(* left out of the waypoint records.                                       *)
(***************************************************************************)
EXTENDS Integers, Sequences, FiniteSets, TLC

VARIABLES
    call,            \* which method this behaviour runs
    pc,              \* position in the method
    aatTime,         \* parameter aatTime
    maxTaskPoints,   \* parameter maxTaskPoints
    generateWPFile,  \* parameter generateWPFile
    count,           \* taskParser.Value("Task", "Count")
    task,            \* what taskParser returned for the points read so far
    i,               \* the loop variable of the point loop / of the zone loop
    settingsTask,    \* SETTINGS_TASK settingsTask
    tpsValid,        \* bool tpsValid
    taskPointArray,  \* TASK_POINT taskPointArray[maxTaskPoints]
    waypointArray,   \* CWaypointArray waypointArray
    wpFile,          \* lines appended to the waypoint file
    warnings,        \* what was sent to Translator().App().Warning()
    errors,          \* what was sent to Translator().App().Error()
    profile,         \* the writes made to profileParser, in order
    taskDumped,      \* TaskDump has been called
    pathPrefix,      \* parameter pathPrefix of PenaltyZonesProcess
    pzCount,         \* taskParser.Value("Task", "PZCount")
    zones,           \* what taskParser returned for the zones read so far
    airspacesFile    \* the airspace file: whether it was opened, and its lines

vars ==
    << call, pc, aatTime, maxTaskPoints, generateWPFile, count, task, i,
       settingsTask, tpsValid, taskPointArray, waypointArray, wpFile,
       warnings, errors, profile, taskDumped, pathPrefix, pzCount, zones,
       airspacesFile >>

taskVars ==
    << task, i, settingsTask, tpsValid, taskPointArray, waypointArray, wpFile,
       warnings, errors, taskDumped >>

pzVars ==
    << zones, airspacesFile >>

----------------------------------------------------------------------------
(* Bounds of the model *)

\* the largest task-point capacity a behaviour is run with
MaxTaskPoints == 4

\* the largest number of declared penalty zones
MaxPZ == 2

\* the number of points between start and finish in the AAT specification
MaxAATPoints == 1

----------------------------------------------------------------------------
(* Program constants.  The enumerators are declared in imports/xcsoarTypes.h *)
(* and condor.h; their values are those of the XCSoar task file format.      *)

START_CIRCLE == 0

START_LINE == 1

START_SECTOR == 2

FINISH_CIRCLE == 0

FINISH_LINE == 1

FINISH_SECTOR == 2

AST_CIRCLE == 0

AST_FAI == 1

WAYPOINT_AAT_CIRCLE == 0

WAYPOINT_AAT_SECTOR == 1

SECTOR_CLASSIC == 0

SECTOR_WINDOW == 1

WAYPOINT_INDEX_OFFSET == 100000

\* the index of an unused task-point slot
UNUSED_INDEX == -1

\* the AATFinishRadial every slot starts with
FULL_CIRCLE == 360

AIRSPACES_FILE_NAME == <<"Condor.txt">>

----------------------------------------------------------------------------
(* The input values the model draws from *)

\* capacities of the target formats a behaviour may be run with
Capacities == {2, MaxTaskPoints}

\* Task Count: 0 up to two more than the largest capacity
Counts == 0 .. (MaxTaskPoints + 2)

AatTimes == {0, 60}

\* TPSectorType: classic, window and a code that is neither
SectorTypes == {SECTOR_CLASSIC, SECTOR_WINDOW, 2}

\* TPAngle: the four angles the code maps, and one it does not
Angles == {45, 90, 180, 270, 360}

Radii == {300, 500}

\* TPHeight of the start point
Heights == {1500}

\* the bearings from the previous and from the next point of an AAT sector
BearingPairs == {<<10, 350>>}

----------------------------------------------------------------------------
(* Conversions and arithmetic *)

DigitChars == <<"0", "1", "2", "3", "4", "5", "6", "7", "8", "9">>

\* Convert(unsigned): the decimal text of n
RECURSIVE Convert(_)
Convert(n) ==
    IF n < 10 THEN <<DigitChars[n + 1]>>
    ELSE Convert(n \div 10) \o <<DigitChars[(n % 10) + 1]>>

\* a - b in 32-bit unsigned arithmetic, as <<high 16 bits, low 16 bits>>
SubU32(a, b) ==
    IF a >= b
    THEN << (a - b) \div 65536, (a - b) % 65536 >>
    ELSE << 65535 - ((b - a - 1) \div 65536), 65535 - ((b - a - 1) % 65536) >>

\* x > m for a 32-bit unsigned x given as two 16-bit halves
GtU32(x, m) ==
    \/ x[1] > m \div 65536
    \/ x[1] = m \div 65536 /\ x[2] > m % 65536

\* Min with the comparison turned round
MinTakesLarger(a, b) == IF a < b THEN b ELSE a

Min(a, b) == IF a < b THEN a ELSE b

\* bfs::path operator/
PathJoin(prefix, name) ==
    IF prefix = <<>> THEN name ELSE prefix \o <<"/">> \o name

----------------------------------------------------------------------------
(* TaskProcess *)

\* const auto tpNum = Convert<unsigned>(taskParser.Value("Task", "Count"))
tpNum == count

\* the capacity check letting one point too many through
TooManyWaypointsOffByOne(n, max) == GtU32(SubU32(n, 1), max + 1)

\* if(tpNum - 1 > maxTaskPoints) throw
TooManyWaypoints(n, max) == GtU32(SubU32(n, 1), max)

\* SETTINGS_TASK settingsTask{} and the assignments that follow it
InitialSettings(aat) ==
    [ AATEnabled      |-> aat > 0,
      AATTaskLength   |-> aat,
      StartType       |-> 0,
      StartRadius     |-> 0,
      StartMaxHeight  |-> 0,
      SectorType      |-> 0,
      SectorRadius    |-> 0,
      FinishType      |-> 0,
      FinishRadius    |-> 0,
      FinishMinHeight |-> 0 ]

\* one slot after the memset and the reset loop
EmptySlot ==
    [ Index           |-> UNUSED_INDEX,
      AATType         |-> 0,
      AATCircleRadius |-> 0,
      AATSectorRadius |-> 0,
      AATStartRadial  |-> 0,
      AATFinishRadial |-> FULL_CIRCLE ]

\* taskPointArray after the reset loop: slots 0 .. max-1
InitialTaskPoints(max) == [k \in 0 .. (max - 1) |-> EmptySlot]

\* a store to taskPointArray[k]; a store past the end would show as a new slot
StoreSlot(arr, k, slot) ==
    [j \in (DOMAIN arr) \cup {k} |-> IF j = k THEN slot ELSE arr[j]]

\* the slot the code is working on: taskPointArray[k]
LoadSlot(arr, k) == IF k \in DOMAIN arr THEN arr[k] ELSE EmptySlot

\* the text of TPName<i>
TPName(k) == <<"T", "P">> \o Convert(k)

\* the waypoint's display name
Name(k, n) ==
    IF k = 1 THEN <<"S", ":">> \o TPName(k)
    ELSE IF k = n - 1 THEN <<"F", ":">> \o TPName(k)
    ELSE Convert(k - 1) \o <<":">> \o TPName(k)

\* waypoint.number = WAYPOINT_INDEX_OFFSET + i
WaypointNumber(k) == WAYPOINT_INDEX_OFFSET + k

Waypoint(k, n) ==
    [ number |-> WaypointNumber(k), name |-> Name(k, n),
      comment |-> TPName(k), inTask |-> TRUE ]

WpFileLine(k, n) == [ index |-> k, name |-> Name(k, n), comment |-> TPName(k) ]

Warning(kind, name) == [ kind |-> kind, name |-> name ]

----------------------------------------------------------------------------
(* The sector resolver: the switch on the angle of a start, finish or       *)
(* regular point.  acc is [st: the settings, valid: tpsValid, warn: the     *)
(* warnings so far].                                                        *)

\* case 90 with the radius of the latest point instead of the smaller one
Case90TakesLatest(acc, k, n, radius, name) ==
    IF k = 1 THEN [acc EXCEPT !.st.StartType = START_SECTOR]
    ELSE IF k = n - 1 THEN [acc EXCEPT !.st.FinishType = FINISH_SECTOR]
    ELSE
      LET a1 == IF k > 2 /\ acc.st.SectorType # AST_FAI
                THEN [acc EXCEPT !.valid = FALSE, !.st.SectorRadius = radius]
                ELSE acc
          a2 == [a1 EXCEPT !.st.SectorType = AST_FAI]
      IN  IF k > 2 /\ a2.st.SectorRadius # radius
          THEN [a2 EXCEPT !.warn = Append(@, Warning("FAI_SMALLEST_RADIUS", name)),
                          !.st.SectorRadius = radius]
          ELSE [a2 EXCEPT !.st.SectorRadius = radius]

\* case 90
Case90(acc, k, n, radius, name) ==
    IF k = 1 THEN [acc EXCEPT !.st.StartType = START_SECTOR]
    ELSE IF k = n - 1 THEN [acc EXCEPT !.st.FinishType = FINISH_SECTOR]
    ELSE
      LET a1 == IF k > 2 /\ acc.st.SectorType # AST_FAI
                THEN [acc EXCEPT !.valid = FALSE, !.st.SectorRadius = radius]
                ELSE acc
          a2 == [a1 EXCEPT !.st.SectorType = AST_FAI]
      IN  IF k > 2 /\ a2.st.SectorRadius # radius
          THEN [a2 EXCEPT !.warn = Append(@, Warning("FAI_SMALLEST_RADIUS", name)),
                          !.st.SectorRadius = Min(@, radius)]
          ELSE [a2 EXCEPT !.st.SectorRadius = radius]

\* case 180
Case180(acc, k, n, radius, name) ==
    IF k = 1 THEN [acc EXCEPT !.st.StartType = START_LINE]
    ELSE IF k = n - 1 THEN [acc EXCEPT !.st.FinishType = FINISH_LINE]
    ELSE IF k > 2 /\ acc.st.SectorType = AST_FAI
    THEN [acc EXCEPT !.valid = FALSE]
    ELSE [acc EXCEPT !.warn = Append(@, Warning("LINE_UNSUPPORTED", name)),
                     !.st.SectorType = AST_FAI,
                     !.st.SectorRadius = radius]

\* case 360
Case360(acc, k, n, radius, name) ==
    IF k = 1 THEN [acc EXCEPT !.st.StartType = START_CIRCLE]
    ELSE IF k = n - 1 THEN [acc EXCEPT !.st.FinishType = FINISH_CIRCLE]
    ELSE IF k > 2 /\ acc.st.SectorType # AST_CIRCLE
    THEN [acc EXCEPT !.valid = FALSE]
    ELSE
      LET a1 == [acc EXCEPT !.st.SectorType = AST_CIRCLE]
      IN  IF k > 2 /\ a1.st.SectorRadius # radius
          THEN [a1 EXCEPT !.warn = Append(@, Warning("CIRCLE_SMALLEST_RADIUS", name)),
                          !.st.SectorRadius = Min(@, radius)]
          ELSE [a1 EXCEPT !.st.SectorRadius = radius]

\* case 270 without its warning
Case270Silent(acc, k, n, radius, name) == Case360(acc, k, n, radius, name)

\* case 270: the warning, then the fall through into case 360
Case270(acc, k, n, radius, name) ==
    Case360([acc EXCEPT !.warn = Append(@, Warning("ANGLE_270_UNSUPPORTED", name))],
            k, n, radius, name)

\* switch(angle)
SwitchAngle(acc, k, n, angle, radius, name) ==
    CASE angle = 90  -> Case90(acc, k, n, radius, name)
      [] angle = 180 -> Case180(acc, k, n, radius, name)
      [] angle = 270 -> Case270(acc, k, n, radius, name)
      [] angle = 360 -> Case360(acc, k, n, radius, name)
      [] OTHER       -> acc

\* the start and finish fields, the finish radius left out
StartFinishFieldsNoFinishRadius(acc, k, n, radius, height) ==
    IF k = 1
    THEN [acc EXCEPT !.st.StartRadius = radius, !.st.StartMaxHeight = height]
    ELSE IF k = n - 1
    THEN [acc EXCEPT !.st.FinishMinHeight = 0]
    ELSE acc

\* the start and finish fields set after the switch
StartFinishFields(acc, k, n, radius, height) ==
    IF k = 1
    THEN [acc EXCEPT !.st.StartRadius = radius, !.st.StartMaxHeight = height]
    ELSE IF k = n - 1
    THEN [acc EXCEPT !.st.FinishRadius = radius, !.st.FinishMinHeight = 0]
    ELSE acc

----------------------------------------------------------------------------
(* The AAT sector bisector *)

\* halfAngle without the correction for bearings more than 180 apart
HalfAngleNoWrap(angle1, angle2) ==
    IF angle1 = angle2 THEN angle1 ELSE (angle1 + angle2) \div 2

\* unsigned halfAngle from the two neighbour bearings
HalfAngle(angle1, angle2) ==
    IF angle1 = angle2 THEN angle1
    ELSE
      LET mean == (angle1 + angle2) \div 2
      IN  IF \/ angle1 > angle2 /\ angle1 - angle2 > 180
             \/ angle1 < angle2 /\ angle2 - angle1 > 180
          THEN (mean + 180) % 360
          ELSE mean

\* static_cast<unsigned>(360 + halfAngle - angle / 2.0) % 360
StartRadial(halfAngle, angle) == ((2 * (360 + halfAngle) - angle) \div 2) % 360

\* static_cast<unsigned>(360 + halfAngle + angle / 2.0) % 360
FinishRadial(halfAngle, angle) == ((2 * (360 + halfAngle) + angle) \div 2) % 360

\* the AAT branch: what it stores in the point's slot
AATSlot(slot, p) ==
    IF p.angle = 360
    THEN [slot EXCEPT !.AATType = WAYPOINT_AAT_CIRCLE,
                      !.AATCircleRadius = p.radius]
    ELSE [slot EXCEPT !.AATType = WAYPOINT_AAT_SECTOR,
                      !.AATSectorRadius = p.radius,
                      !.AATStartRadial =
                          StartRadial(HalfAngle(p.angle1, p.angle2), p.angle),
                      !.AATFinishRadial =
                          FinishRadial(HalfAngle(p.angle1, p.angle2), p.angle)]

\* if(settingsTask.AATEnabled && i > 1 && i < tpNum - 1)
\* an AAT test that exempts the start only
IsAATPointButStart(aat, k, n) == aat /\ k > 1

IsAATPoint(aat, k, n) == aat /\ k > 1 /\ k < n - 1

----------------------------------------------------------------------------
(* The values the task parser may return for point k of a task of n points  *)
(* (fields the code does not read for that point are 0)                     *)

ClassicPoints(radii, angles, heights, bearings) ==
    { [ sectorType |-> SECTOR_CLASSIC, radius |-> r, angle |-> a,
        height |-> h, angle1 |-> b[1], angle2 |-> b[2] ] :
          r \in radii, a \in angles, h \in heights, b \in bearings }

OtherPoints ==
    { [ sectorType |-> t, radius |-> 0, angle |-> 0,
        height |-> 0, angle1 |-> 0, angle2 |-> 0 ] :
          t \in SectorTypes \ {SECTOR_CLASSIC} }

PointInputs(k, n, aat) ==
    ClassicPoints(Radii, Angles,
                  IF k = 1 THEN Heights ELSE {0},
                  IF IsAATPoint(aat, k, n) THEN BearingPairs ELSE {<<0, 0>>})
    \cup OtherPoints

\* more radii, by the point's position in the task
RadiiInputs(k, n, aat) ==
    ClassicPoints(IF k = 1 THEN {300, 500}
                  ELSE IF k = n - 1 THEN {400, 500}
                  ELSE {300, 500, 1000},
                  Angles,
                  IF k = 1 THEN Heights ELSE {0},
                  IF IsAATPoint(aat, k, n) THEN BearingPairs ELSE {<<0, 0>>})
    \cup OtherPoints

\* the bearings an AAT sector point is tried with
Bearings == {0, 10, 90, 170, 180, 191, 270, 350, 359}

\* AAT enabled: a fixed start and finish, the points between them with the
\* neighbour bearings drawn from Bearings
AATInputs(k, n) ==
    IF IsAATPoint(TRUE, k, n)
    THEN ClassicPoints({500}, Angles \ {360}, {0}, Bearings \X Bearings)
         \cup ClassicPoints({500}, {360}, {0}, {<<0, 0>>})
         \cup OtherPoints
    ELSE ClassicPoints({500}, {90}, IF k = 1 THEN {1500} ELSE {0}, {<<0, 0>>})

\* the unsupported sector type, taken for a fatal error of the point loop:
\* the conflict flag goes down with it
UnsupportedSectorTypeInvalidates(res, code, name) ==
    [res EXCEPT !.valid = FALSE,
                !.err = << [ kind |-> "UNSUPPORTED_SECTOR_TYPE",
                             code |-> Convert(code), name |-> name ] >>]

\* else: the error for a sector type that is neither classic nor window
UnsupportedSectorType(res, code, name) ==
    [res EXCEPT !.err = << [ kind |-> "UNSUPPORTED_SECTOR_TYPE",
                             code |-> Convert(code), name |-> name ] >>]

\* the body of the point loop from the sector type on: the new
\* [st, valid, warn, err, slot] for point k with input p
PointResult(st, valid, slot, k, n, p) ==
    LET name == Name(k, n)
        acc  == [st |-> st, valid |-> valid, warn |-> <<>>]
        same == [st |-> st, valid |-> valid, warn |-> <<>>, err |-> <<>>,
                 slot |-> slot]
    IN  IF p.sectorType = SECTOR_CLASSIC
        THEN IF IsAATPoint(st.AATEnabled, k, n)
             THEN [same EXCEPT !.slot = AATSlot(slot, p)]
             ELSE LET r == StartFinishFields(
                               SwitchAngle(acc, k, n, p.angle, p.radius, name),
                               k, n, p.radius, p.height)
                  IN  [same EXCEPT !.st = r.st, !.valid = r.valid,
                                   !.warn = r.warn]
        ELSE IF p.sectorType = SECTOR_WINDOW
        THEN [same EXCEPT !.warn = <<Warning("WINDOW_UNSUPPORTED", name)>>]
        ELSE UnsupportedSectorType(same, p.sectorType, name)

\* the profile keys written after the loop
ProfileWrites(st) ==
    << <<"StartLine", Convert(st.StartType)>>,
       <<"StartMaxHeight", Convert(st.StartMaxHeight)>>,
       <<"StartMaxHeightMargin", <<"0">> >>,
       <<"StartHeightRef", <<"1">> >>,
       <<"StartRadius", Convert(st.StartRadius)>>,
       <<"StartMaxSpeed", <<"0">> >>,
       <<"StartMaxSpeedMargin", <<"0">> >>,
       <<"FAISector", Convert(st.SectorType)>>,
       <<"Radius", Convert(st.SectorRadius)>>,
       <<"FinishLine", Convert(st.FinishType)>>,
       <<"FinishMinHeight", Convert(st.FinishMinHeight)>>,
       <<"FinishRadius", Convert(st.FinishRadius)>>,
       <<"FAIFinishHeight", Convert(st.FinishMinHeight)>> >>

\* the global warning whatever the conflict flag says
GlobalWarningAlways(valid) == <<Warning("TPS_NOT_UNIFORM", <<>>)>>

\* if(!tpsValid) the global warning
GlobalWarning(valid) ==
    IF ~valid THEN <<Warning("TPS_NOT_UNIFORM", <<>>)>> ELSE <<>>

----------------------------------------------------------------------------
(* Actions of TaskProcess *)

\* the capacity check throws EOperationFailed
TaskTooMany ==
    /\ call = "TaskProcess" /\ pc = "entry"
    /\ TooManyWaypoints(tpNum, maxTaskPoints)
    /\ pc' = "failed"
    /\ UNCHANGED << call, aatTime, maxTaskPoints, generateWPFile, count,
                    profile, pathPrefix, pzCount >>
    /\ UNCHANGED taskVars
    /\ UNCHANGED pzVars

\* the settings and the arrays are set up
TaskSetup ==
    /\ call = "TaskProcess" /\ pc = "entry"
    /\ ~TooManyWaypoints(tpNum, maxTaskPoints)
    /\ settingsTask' = InitialSettings(aatTime)
    /\ taskPointArray' = InitialTaskPoints(maxTaskPoints)
    /\ waypointArray' = <<>>
    /\ tpsValid' = TRUE
    /\ i' = 1
    /\ pc' = "loop"
    /\ UNCHANGED << call, aatTime, maxTaskPoints, generateWPFile, count,
                    profile, pathPrefix, pzCount, task, wpFile, warnings,
                    errors, taskDumped >>
    /\ UNCHANGED pzVars

\* one pass of the point loop, the parser's values drawn from `inputs`
TaskPointOn(inputs) ==
    /\ call = "TaskProcess" /\ pc = "loop"
    /\ i < tpNum
    /\ \E p \in inputs :
         LET slot == [LoadSlot(taskPointArray, i - 1)
                        EXCEPT !.Index = WaypointNumber(i)]
             r    == PointResult(settingsTask, tpsValid, slot, i, tpNum, p)
         IN  /\ task' = Append(task, p)
             /\ wpFile' = IF generateWPFile
                          THEN Append(wpFile, WpFileLine(i, tpNum))
                          ELSE wpFile
             /\ waypointArray' = Append(waypointArray, Waypoint(i, tpNum))
             /\ taskPointArray' = StoreSlot(taskPointArray, i - 1, r.slot)
             /\ settingsTask' = r.st
             /\ tpsValid' = r.valid
             /\ warnings' = warnings \o r.warn
             /\ errors' = errors \o r.err
    /\ i' = i + 1
    /\ UNCHANGED << call, pc, aatTime, maxTaskPoints, generateWPFile, count,
                    profile, pathPrefix, pzCount, taskDumped >>
    /\ UNCHANGED pzVars

TaskPoint == TaskPointOn(PointInputs(i, tpNum, settingsTask.AATEnabled))

TaskPointRadii == TaskPointOn(RadiiInputs(i, tpNum, settingsTask.AATEnabled))

TaskPointAAT == TaskPointOn(AATInputs(i, tpNum))

\* after the loop: the global warning, the profile keys, TaskDump
TaskFinish ==
    /\ call = "TaskProcess" /\ pc = "loop"
    /\ ~(i < tpNum)
    /\ warnings' = warnings \o GlobalWarning(tpsValid)
    /\ profile' = profile \o ProfileWrites(settingsTask)
    /\ taskDumped' = TRUE
    /\ pc' = "done"
    /\ UNCHANGED << call, aatTime, maxTaskPoints, generateWPFile, count,
                    pathPrefix, pzCount, task, i, settingsTask, tpsValid,
                    taskPointArray, waypointArray, wpFile, errors >>
    /\ UNCHANGED pzVars

----------------------------------------------------------------------------
(* PenaltyZonesProcess *)

\* pathPrefix values a behaviour may be run with
PathPrefixes == { <<>>, <<"condor2nav">> }

\* the texts of PZTop<i>
TopTexts == { <<"1", "5", "0", "0">> }

\* the texts of PZBase<i>
BaseTexts == { <<"0">>, <<"0", "0">>, <<"5", "0", "0">> }

DigitValue(c) == CHOOSE d \in 0 .. 9 : DigitChars[d + 1] = c

\* Convert<unsigned>(text)
RECURSIVE ParseUnsigned(_)
ParseUnsigned(text) ==
    IF text = <<>> THEN 0
    ELSE 10 * ParseUnsigned(SubSeq(text, 1, Len(text) - 1))
         + DigitValue(text[Len(text)])

\* const auto pzNum = Convert<unsigned>(taskParser.Value("Task", "PZCount"))
pzNum == ParseUnsigned(pzCount)

Quote == "\""

\* the AirspaceFile value that names the file whatever the number of zones
AirspaceFileValueAlwaysPath(n, prefix) ==
    <<Quote>> \o PathJoin(prefix, AIRSPACES_FILE_NAME) \o <<Quote>>

\* the value written for the AirspaceFile key
AirspaceFileValue(n, prefix) ==
    IF n = 0 THEN <<Quote, Quote>>
    ELSE <<Quote>> \o PathJoin(prefix, AIRSPACES_FILE_NAME) \o <<Quote>>

Banner ==
    << <<"*******************************************************">>,
       <<"* Condor Task Penalty Zones generated with Condor2Nav *">>,
       <<"*******************************************************">> >>

\* the text of corner j of zone k after the coordinate conversion
CornerText(j, k) == <<"PZPos">> \o Convert(j) \o <<"#">> \o Convert(k)

\* a floor line that carries the unit whatever the base
FloorLineAlwaysAMSL(base) == <<"AL ">> \o Convert(base) \o <<"m AMSL">>

\* the floor line
FloorLine(base) ==
    IF base = 0 THEN <<"AL 0">>
    ELSE <<"AL ">> \o Convert(base) \o <<"m AMSL">>

\* the lines of record k
ZoneLines(k, z) ==
    << <<>>,
       <<"AC P">>,
       <<"AN Penalty Zone ">> \o Convert(k + 1),
       <<"AH ">> \o z.top \o <<"m AMSL">>,
       FloorLine(ParseUnsigned(z.base)) >>
    \o [j \in 1 .. 4 |-> <<"DP ">> \o CornerText(j - 1, k)]

\* pzNum == 0: the empty marker is written and the method returns
PZNone ==
    /\ call = "PenaltyZonesProcess" /\ pc = "entry"
    /\ pzNum = 0
    /\ profile' = Append(profile, <<"AirspaceFile", AirspaceFileValue(pzNum, pathPrefix)>>)
    /\ pc' = "done"
    /\ UNCHANGED << call, aatTime, maxTaskPoints, generateWPFile, count,
                    pathPrefix, pzCount >>
    /\ UNCHANGED taskVars
    /\ UNCHANGED pzVars

\* the key is written, the file is opened and the banner goes out
PZOpen ==
    /\ call = "PenaltyZonesProcess" /\ pc = "entry"
    /\ pzNum # 0
    /\ profile' = Append(profile, <<"AirspaceFile", AirspaceFileValue(pzNum, pathPrefix)>>)
    /\ airspacesFile' = [open |-> TRUE, lines |-> Banner]
    /\ i' = 0
    /\ pc' = "zones"
    /\ UNCHANGED << call, aatTime, maxTaskPoints, generateWPFile, count,
                    pathPrefix, pzCount, task, settingsTask, tpsValid,
                    taskPointArray, waypointArray, wpFile, warnings, errors,
                    taskDumped, zones >>

\* one pass of the zone loop
PZZone ==
    /\ call = "PenaltyZonesProcess" /\ pc = "zones"
    /\ i < pzNum
    /\ \E t \in TopTexts, b \in BaseTexts :
         LET z == [top |-> t, base |-> b]
         IN  /\ zones' = Append(zones, z)
             /\ airspacesFile' =
                  [airspacesFile EXCEPT !.lines = @ \o ZoneLines(i, z)]
    /\ i' = i + 1
    /\ UNCHANGED << call, pc, aatTime, maxTaskPoints, generateWPFile, count,
                    profile, pathPrefix, pzCount, task, settingsTask,
                    tpsValid, taskPointArray, waypointArray, wpFile, warnings,
                    errors, taskDumped >>

\* the zone loop ends and the method returns
PZEnd ==
    /\ call = "PenaltyZonesProcess" /\ pc = "zones"
    /\ ~(i < pzNum)
    /\ pc' = "done"
    /\ UNCHANGED << call, aatTime, maxTaskPoints, generateWPFile, count,
                    profile, pathPrefix, pzCount >>
    /\ UNCHANGED taskVars
    /\ UNCHANGED pzVars

----------------------------------------------------------------------------
(* The specification *)

\* the locals of a method before it has set them
NoLocals ==
    /\ task = <<>>
    /\ i = 0
    /\ settingsTask = <<>>
    /\ tpsValid = TRUE
    /\ taskPointArray = <<>>
    /\ waypointArray = <<>>
    /\ wpFile = <<>>
    /\ warnings = <<>>
    /\ errors = <<>>
    /\ profile = <<>>
    /\ taskDumped = FALSE
    /\ zones = <<>>
    /\ airspacesFile = [open |-> FALSE, lines |-> <<>>]

InitTask ==
    /\ call = "TaskProcess"
    /\ aatTime \in AatTimes
    /\ maxTaskPoints \in Capacities
    /\ generateWPFile \in BOOLEAN
    /\ count \in Counts
    /\ pathPrefix = <<>>
    /\ pzCount = <<"0">>

InitPZ ==
    /\ call = "PenaltyZonesProcess"
    /\ aatTime = 0
    /\ maxTaskPoints = 0
    /\ generateWPFile = FALSE
    /\ count = 0
    /\ pathPrefix \in PathPrefixes
    /\ pzCount \in { Convert(n) : n \in 0 .. MaxPZ }

Init ==
    /\ pc = "entry"
    /\ NoLocals
    /\ (InitTask \/ InitPZ)

Next ==
    \/ TaskTooMany
    \/ TaskSetup
    \/ TaskPoint
    \/ TaskFinish
    \/ PZNone
    \/ PZOpen
    \/ PZZone
    \/ PZEnd

Spec == Init /\ [][Next]_vars

\* TaskProcess on a task within the capacity, with more radii
InitRadii ==
    /\ pc = "entry"
    /\ NoLocals
    /\ call = "TaskProcess"
    /\ aatTime \in AatTimes
    /\ maxTaskPoints = MaxTaskPoints
    /\ generateWPFile = FALSE
    /\ count \in 1 .. (MaxTaskPoints + 1)
    /\ pathPrefix = <<>>
    /\ pzCount = <<"0">>

NextRadii ==
    \/ TaskSetup
    \/ TaskPointRadii
    \/ TaskFinish

SpecRadii == InitRadii /\ [][NextRadii]_vars

\* TaskProcess with AAT enabled on a start, MaxAATPoints points and a finish
InitAAT ==
    /\ pc = "entry"
    /\ NoLocals
    /\ call = "TaskProcess"
    /\ aatTime = 60
    /\ count = MaxAATPoints + 3
    /\ maxTaskPoints = count - 1
    /\ generateWPFile = FALSE
    /\ pathPrefix = <<>>
    /\ pzCount = <<"0">>

NextAAT ==
    \/ TaskSetup
    \/ TaskPointAAT
    \/ TaskFinish

SpecAAT == InitAAT /\ [][NextAAT]_vars

----------------------------------------------------------------------------
(* Vocabulary of the properties *)

TaskDone == call = "TaskProcess" /\ pc = "done"

\* this step is a pass of the point loop; it processes point i with input
\* task'[i]
PointStep == call = "TaskProcess" /\ pc = "loop" /\ i' = i + 1

\* point k of a task of n points is neither the start nor the finish
Intermediate(k, n) == k > 1 /\ k < n - 1

IsClassic(p) == p.sectorType = SECTOR_CLASSIC

\* the task sector type an intermediate point asks for
Candidate(angle) == IF angle = 90 THEN AST_FAI ELSE AST_CIRCLE

\* the warnings this step emits
NewWarnings == SubSeq(warnings', Len(warnings) + 1, Len(warnings'))

UniformKinds == {"FAI_SMALLEST_RADIUS", "CIRCLE_SMALLEST_RADIUS"}

\* the step emits a uniform radius/type warning that names point k
UniformWarningFor(k) ==
    \E j \in 1 .. Len(NewWarnings) :
        /\ NewWarnings[j].kind \in UniformKinds
        /\ NewWarnings[j].name = Name(k, tpNum)

\* all 13 profile keys have been written, in the order of the code
ProfileKeys ==
    << "StartLine", "StartMaxHeight", "StartMaxHeightMargin", "StartHeightRef",
       "StartRadius", "StartMaxSpeed", "StartMaxSpeedMargin", "FAISector",
       "Radius", "FinishLine", "FinishMinHeight", "FinishRadius",
       "FAIFinishHeight" >>

ProfileComplete ==
    /\ Len(profile) = Len(ProfileKeys)
    /\ \A j \in 1 .. Len(ProfileKeys) : profile[j][1] = ProfileKeys[j]

----------------------------------------------------------------------------
(* C1 *)

\* C1 (as claimed): TaskProcess fails fatally exactly when Count - 1 exceeds
\* maxTaskPoints, and then before any profile key, waypoint line, warning or
\* TaskDump; for every other Count >= 0 it does not fail, and once it has
\* returned it has processed every point 1 .. Count-1 and written all the
\* profile keys.  The code computes Count - 1 in unsigned arithmetic, so
\* Count = 0 fails although -1 does not exceed the capacity.
C1_FatalExactlyWhenOverCapacity ==
    call = "TaskProcess" =>
      /\ (pc = "failed") =>
            /\ count - 1 > maxTaskPoints
            /\ profile = <<>> /\ wpFile = <<>> /\ warnings = <<>>
            /\ ~taskDumped
      /\ (count - 1 > maxTaskPoints) => pc \in {"entry", "failed"}
      /\ (pc = "done") =>
            /\ Len(task) = count - 1
            /\ Len(waypointArray) = count - 1
            /\ ProfileComplete
            /\ taskDumped

----------------------------------------------------------------------------
(* C2 *)

\* point 2 is an intermediate point that set the task sector type and radius
Point2Set ==
    /\ Len(task) >= 2
    /\ Intermediate(2, tpNum)
    /\ IsClassic(task[2])
    /\ task[2].angle \in {90, 180, 270, 360}

\* C2 (as claimed): with AAT disabled, an intermediate classic point with
\* angle 90 or 360 whose candidate type differs from the type an earlier
\* intermediate point set, or whose radius differs from the radius it set,
\* leaves the smaller of the two radii as the task sector radius and emits a
\* uniform radius/type warning for that point.
C2_SmallerRadiusOnAnyConflict ==
    [][ LET p == task'[i]
        IN  ( /\ PointStep
              /\ ~settingsTask.AATEnabled
              /\ Intermediate(i, tpNum)
              /\ Point2Set
              /\ IsClassic(p)
              /\ p.angle \in {90, 360}
              /\ \/ Candidate(p.angle) # settingsTask.SectorType
                 \/ p.radius # settingsTask.SectorRadius )
            => /\ settingsTask'.SectorRadius =
                      IF settingsTask.SectorRadius < p.radius
                      THEN settingsTask.SectorRadius ELSE p.radius
               /\ UniformWarningFor(i) ]_vars

\* C2 (amended): with AAT disabled, for an intermediate classic point after
\* the first intermediate one with angle 90 or 360:
\*  - when its candidate type is the task sector type held before it and its
\*    radius differs from the held radius, the task sector radius becomes the
\*    smaller of the two, a uniform-radius warning is emitted for the point,
\*    and the type and the conflict flag stay as they were;
\*  - when its candidate type differs from the held type, no warning is
\*    emitted for the point and the conflict flag is cleared; angle 90 then
\*    makes the type FAI with the point's own radius, angle 360 leaves type
\*    and radius as they were.
C2_SmallerRadiusOnRadiusConflict ==
    [][ LET p  == task'[i]
            st == settingsTask
        IN  ( /\ PointStep
              /\ ~st.AATEnabled
              /\ Intermediate(i, tpNum)
              /\ i > 2
              /\ IsClassic(p)
              /\ p.angle \in {90, 360} )
            => IF Candidate(p.angle) = st.SectorType
               THEN /\ settingsTask'.SectorType = st.SectorType
                    /\ tpsValid' = tpsValid
                    /\ settingsTask'.SectorRadius =
                           IF st.SectorRadius < p.radius
                           THEN st.SectorRadius ELSE p.radius
                    /\ IF p.radius # st.SectorRadius
                       THEN /\ Len(NewWarnings) = 1
                            /\ UniformWarningFor(i)
                       ELSE NewWarnings = <<>>
               ELSE /\ NewWarnings = <<>>
                    /\ tpsValid' = FALSE
                    /\ IF p.angle = 90
                       THEN /\ settingsTask'.SectorType = AST_FAI
                            /\ settingsTask'.SectorRadius = p.radius
                       ELSE /\ settingsTask'.SectorType = st.SectorType
                            /\ settingsTask'.SectorRadius = st.SectorRadius ]_vars

\* two intermediate circles, 1000 then 300: the radius went down to 300 and
\* the second one was warned about
C2_Witness ==
    /\ call = "TaskProcess" /\ pc = "loop"
    /\ ~settingsTask.AATEnabled
    /\ Len(task) = 3 /\ Intermediate(3, tpNum)
    /\ IsClassic(task[2]) /\ task[2].angle = 360 /\ task[2].radius = 1000
    /\ IsClassic(task[3]) /\ task[3].angle = 360 /\ task[3].radius = 300
    /\ settingsTask.SectorType = AST_CIRCLE
    /\ settingsTask.SectorRadius = 300
    /\ \E j \in 1 .. Len(warnings) :
          /\ warnings[j].kind = "CIRCLE_SMALLEST_RADIUS"
          /\ warnings[j].name = Name(3, tpNum)

----------------------------------------------------------------------------
(* C3 *)

\* how many times the global warning is in the sink
GlobalWarnings ==
    Cardinality({ j \in 1 .. Len(warnings) : warnings[j].kind = "TPS_NOT_UNIFORM" })

\* intermediate point k asks for a task sector type and radius
Asks(k) ==
    /\ Intermediate(k, tpNum)
    /\ IsClassic(task[k])
    /\ task[k].angle \in {90, 360}

\* two intermediate points of the points read so far ask for different
\* sector types or for different radii
ConflictInTask ==
    /\ ~settingsTask.AATEnabled
    /\ \E j, k \in 1 .. Len(task) :
          /\ j < k /\ Asks(j) /\ Asks(k)
          /\ \/ Candidate(task[j].angle) # Candidate(task[k].angle)
             \/ task[j].radius # task[k].radius

\* C3 (as claimed, the part that fails on a radius conflict): the global
\* warning is emitted at most once, only after the last point has been
\* processed, and whenever two intermediate points conflicted in sector type
\* or in radius.
C3_GlobalWarningOnAnyConflict ==
    call = "TaskProcess" =>
      /\ GlobalWarnings <= 1
      /\ GlobalWarnings = 1 => (pc = "done" /\ Len(task) = count - 1)
      /\ (pc = "done" /\ ConflictInTask) => GlobalWarnings = 1

\* the code's test for a sector type that does not fit the held one
TypeMismatch(st, k, n, p) ==
    /\ IsClassic(p)
    /\ ~st.AATEnabled
    /\ Intermediate(k, n)
    /\ k > 2
    /\ \/ p.angle = 90 /\ st.SectorType # AST_FAI
       \/ p.angle = 180 /\ st.SectorType = AST_FAI
       \/ p.angle \in {270, 360} /\ st.SectorType # AST_CIRCLE

\* C3 (amended): the global warning is emitted at most once, only after the
\* last point has been processed and as the last warning of the run, and
\* exactly when the conflict flag was cleared during the run; the flag is
\* cleared by an intermediate classic point after the first intermediate one
\* (AAT disabled) whose angle is 90 while the held task sector type is not
\* FAI, 180 while it is FAI, or 270 or 360 while it is not circle, and by
\* nothing else: a different radius alone gets the per-point warning only.
C3_GlobalWarningOnTypeMismatch ==
    /\ [](call = "TaskProcess" =>
            /\ GlobalWarnings <= 1
            /\ GlobalWarnings = 1 =>
                  /\ pc = "done" /\ Len(task) = count - 1
                  /\ warnings[Len(warnings)].kind = "TPS_NOT_UNIFORM"
            /\ pc = "done" => (GlobalWarnings = 1 <=> ~tpsValid)
            /\ pc = "loop" /\ i = 1 => tpsValid)
    /\ [][ PointStep =>
             (tpsValid' = (tpsValid /\ ~TypeMismatch(settingsTask, i, tpNum, task'[i]))) ]_vars

\* a run whose two intermediate points ask for FAI and then for circle has
\* ended with the flag cleared and the global warning as its last warning
C3_Witness ==
    /\ TaskDone
    /\ ~settingsTask.AATEnabled
    /\ count = 5
    /\ IsClassic(task[2]) /\ task[2].angle = 90
    /\ IsClassic(task[3]) /\ task[3].angle = 360
    /\ ~tpsValid
    /\ GlobalWarnings = 1
    /\ warnings[Len(warnings)].kind = "TPS_NOT_UNIFORM"

----------------------------------------------------------------------------
(* C4 *)

\* the intermediate points of the task
Intermediates == 2 .. (tpNum - 2)

\* how many warnings name the start or the finish point
EndWarnings ==
    Cardinality({ j \in 1 .. Len(warnings) :
                    warnings[j].name \in {Name(1, tpNum), Name(tpNum - 1, tpNum)} })

----------------------------------------------------------------------------
(* C5 *)

\* C5: with AAT disabled, the first intermediate classic point (i = 2), of
\* angle a and radius r, sets the task sector to FAI/r without a warning for
\* a = 90, to FAI/r with exactly the line warning for a = 180, to circle/r
\* with exactly the angle-270 warning for a = 270, to circle/r without a
\* warning for a = 360, and leaves type and radius alone, without a warning,
\* for any other angle.
C5_FirstIntermediateMapping ==
    [][ LET p  == task'[i]
            st == settingsTask'
            nm == Name(2, tpNum)
        IN  ( /\ PointStep
              /\ i = 2
              /\ Intermediate(2, tpNum)
              /\ ~settingsTask.AATEnabled
              /\ IsClassic(p) )
            => CASE p.angle = 90 ->
                      /\ st.SectorType = AST_FAI /\ st.SectorRadius = p.radius
                      /\ NewWarnings = <<>>
                 [] p.angle = 180 ->
                      /\ st.SectorType = AST_FAI /\ st.SectorRadius = p.radius
                      /\ NewWarnings = << [kind |-> "LINE_UNSUPPORTED", name |-> nm] >>
                 [] p.angle = 270 ->
                      /\ st.SectorType = AST_CIRCLE /\ st.SectorRadius = p.radius
                      /\ NewWarnings = << [kind |-> "ANGLE_270_UNSUPPORTED", name |-> nm] >>
                 [] p.angle = 360 ->
                      /\ st.SectorType = AST_CIRCLE /\ st.SectorRadius = p.radius
                      /\ NewWarnings = <<>>
                 [] OTHER ->
                      /\ st.SectorType = settingsTask.SectorType
                      /\ st.SectorRadius = settingsTask.SectorRadius
                      /\ NewWarnings = <<>> ]_vars

\* point 2 of angle 270 and radius 1000 has just been processed
C5_Witness ==
    /\ call = "TaskProcess" /\ pc = "loop"
    /\ ~settingsTask.AATEnabled
    /\ i = 3 /\ Intermediate(2, tpNum)
    /\ IsClassic(task[1]) /\ task[1].angle = 90
    /\ IsClassic(task[2]) /\ task[2].angle = 270 /\ task[2].radius = 1000
    /\ settingsTask.SectorType = AST_CIRCLE
    /\ settingsTask.SectorRadius = 1000
    /\ warnings = << [kind |-> "ANGLE_270_UNSUPPORTED", name |-> Name(2, tpNum)] >>

----------------------------------------------------------------------------
(* C6 *)

StartFields(st) == << st.StartType, st.StartRadius, st.StartMaxHeight >>

FinishFields(st) == << st.FinishType, st.FinishRadius, st.FinishMinHeight >>

SectorFields(st) == << st.SectorType, st.SectorRadius >>

\* start (90, 500), one interior point (360, 1000), finish (180, 400)
RoundTripTask ==
    /\ count = 4
    /\ Len(task) = 3
    /\ IsClassic(task[1]) /\ task[1].angle = 90 /\ task[1].radius = 500
    /\ IsClassic(task[2]) /\ task[2].angle = 360 /\ task[2].radius = 1000
    /\ IsClassic(task[3]) /\ task[3].angle = 180 /\ task[3].radius = 400

RoundTripResult ==
    /\ settingsTask.StartType = START_SECTOR /\ settingsTask.StartRadius = 500
    /\ settingsTask.SectorType = AST_CIRCLE /\ settingsTask.SectorRadius = 1000
    /\ settingsTask.FinishType = FINISH_LINE /\ settingsTask.FinishRadius = 400
    /\ warnings = <<>>

\* C6: for a task of at least two in-task points, a classic point 1 gives
\* the start type (90 sector, 180 line, 360 circle), the start radius and
\* the start max height, a classic point N-1 gives the finish type and the
\* finish radius, the finish minimum height is 0; a pass of the loop for
\* another point than point 1 leaves the start fields alone, one for another
\* point than N-1 the finish fields, and one for the start or the finish
\* point the task sector type and radius; so start (90, 500), interior
\* (360, 1000), finish (180, 400) with AAT disabled ends with sector/500,
\* circle/1000, line/400 and no warning.
C6_StartAndFinishFromTheirPoints ==
    /\ []( (TaskDone /\ count - 1 >= 2) =>
             LET s  == task[1]
                 f  == task[count - 1]
                 st == settingsTask
             IN  /\ IsClassic(s) =>
                       /\ st.StartRadius = s.radius
                       /\ st.StartMaxHeight = s.height
                       /\ s.angle = 90 => st.StartType = START_SECTOR
                       /\ s.angle = 180 => st.StartType = START_LINE
                       /\ s.angle = 360 => st.StartType = START_CIRCLE
                 /\ IsClassic(f) =>
                       /\ st.FinishRadius = f.radius
                       /\ f.angle = 90 => st.FinishType = FINISH_SECTOR
                       /\ f.angle = 180 => st.FinishType = FINISH_LINE
                       /\ f.angle = 360 => st.FinishType = FINISH_CIRCLE
                 /\ st.FinishMinHeight = 0
                 /\ (RoundTripTask /\ ~st.AATEnabled) => RoundTripResult )
    /\ [][ (PointStep /\ count - 1 >= 2) =>
             /\ i # 1 => StartFields(settingsTask') = StartFields(settingsTask)
             /\ i # tpNum - 1 =>
                   FinishFields(settingsTask') = FinishFields(settingsTask)
             /\ ~Intermediate(i, tpNum) =>
                   SectorFields(settingsTask') = SectorFields(settingsTask) ]_vars

\* the round trip task has been translated
C6_Witness ==
    /\ TaskDone
    /\ ~settingsTask.AATEnabled
    /\ RoundTripTask
    /\ task[1].height = 1500
    /\ settingsTask.StartMaxHeight = 1500
    /\ RoundTripResult

----------------------------------------------------------------------------
(* C7 *)

\* C7: when TaskProcess has returned, slot k of the task-point array holds
\* waypoint index WAYPOINT_INDEX_OFFSET + k + 1 for k < N-1 and -1 for
\* N-1 <= k < maxTaskPoints, the array has the slots 0 .. maxTaskPoints-1
\* and no other, and the waypoint list holds N-1 waypoints, the one at
\* position k numbered offset + k, hence strictly increasing.
C7_SlotsAndWaypointNumbers ==
    TaskDone =>
      /\ DOMAIN taskPointArray = 0 .. (maxTaskPoints - 1)
      /\ \A k \in 0 .. (maxTaskPoints - 1) :
            taskPointArray[k].Index =
                IF k < count - 1 THEN WAYPOINT_INDEX_OFFSET + k + 1
                ELSE UNUSED_INDEX
      /\ Len(waypointArray) = count - 1
      /\ \A k \in 1 .. Len(waypointArray) :
            /\ waypointArray[k].number = WAYPOINT_INDEX_OFFSET + k
            /\ k > 1 => waypointArray[k - 1].number < waypointArray[k].number

\* a task that fills the array to its last slot has been translated
C7_Witness ==
    /\ TaskDone
    /\ maxTaskPoints = MaxTaskPoints
    /\ count = maxTaskPoints + 1
    /\ taskPointArray[maxTaskPoints - 1].Index # UNUSED_INDEX
    /\ Len(waypointArray) = maxTaskPoints

----------------------------------------------------------------------------
(* C8 *)

\* the bisector of the claim: the integer part of the mean of the two
\* bearings, turned by 180 when they are more than 180 apart
Bisector(a1, a2) ==
    LET mean == (a1 + a2) \div 2
        diff == IF a1 > a2 THEN a1 - a2 ELSE a2 - a1
    IN  IF diff > 180 THEN (mean + 180) % 360 ELSE mean

\* point k has been processed as an AAT sector point
AATSectorPoint(k) ==
    /\ k <= Len(task)
    /\ IsAATPoint(settingsTask.AATEnabled, k, tpNum)
    /\ IsClassic(task[k])
    /\ task[k].angle < 360

\* C8 (as claimed): for a processed AAT sector point with neighbour
\* bearings a1, a2 in [0, 360) and declared angle w < 360, with h the
\* bisector of a1 and a2 (bearings 10 and 350 give 0), h is in [0, 360) and
\* the stored start and finish radials are h - w/2 and h + w/2, each brought
\* into [0, 360).  (x = h - w/2 modulo 360 is stated as 2x = 2h - w modulo
\* 720, so that an odd w is covered.)
C8_RadialsAreBisectorMinusPlusHalfWidth ==
    /\ Bisector(10, 350) = 0
    /\ (call = "TaskProcess" /\ pc \in {"loop", "done"}) =>
         \A k \in 1 .. Len(task) :
            AATSectorPoint(k) =>
              LET p    == task[k]
                  w    == p.angle
                  h    == Bisector(p.angle1, p.angle2)
                  slot == taskPointArray[k - 1]
              IN  /\ h \in 0 .. 359
                  /\ slot.AATStartRadial \in 0 .. 359
                  /\ slot.AATFinishRadial \in 0 .. 359
                  /\ (2 * slot.AATStartRadial + w) % 720 = (2 * h) % 720
                  /\ (2 * h + w) % 720 = (2 * slot.AATFinishRadial) % 720

\* C8 (amended): as claimed, except that the radials are whole degrees: the
\* code forms 360 + h - w/2 and 360 + h + w/2, cuts each to an integer and
\* reduces it modulo 360, so that the start radial is h - w/2 and the finish
\* radial h + w/2 modulo 360 for an even w, and h - (w+1)/2 and h + (w-1)/2
\* modulo 360 for an odd w; the slot is marked as an AAT sector of the
\* point's radius.
C8_AATSectorRadials ==
    /\ Bisector(10, 350) = 0
    /\ (call = "TaskProcess" /\ pc \in {"loop", "done"}) =>
         \A k \in 1 .. Len(task) :
            AATSectorPoint(k) =>
              LET p    == task[k]
                  w    == p.angle
                  h    == Bisector(p.angle1, p.angle2)
                  slot == taskPointArray[k - 1]
                  up   == (w + (w % 2)) \div 2
                  down == (w - (w % 2)) \div 2
              IN  /\ h \in 0 .. 359
                  /\ slot.AATStartRadial \in 0 .. 359
                  /\ slot.AATFinishRadial \in 0 .. 359
                  /\ (slot.AATStartRadial + up) % 360 = h
                  /\ (h + down) % 360 = slot.AATFinishRadial
                  /\ slot.AATType = WAYPOINT_AAT_SECTOR
                  /\ slot.AATSectorRadius = p.radius

\* a sector of 90 degrees between bearings 10 and 350 has its radials at 315
\* and 45
C8_Witness ==
    /\ call = "TaskProcess" /\ pc = "done"
    /\ AATSectorPoint(2)
    /\ task[2].angle1 = 10 /\ task[2].angle2 = 350 /\ task[2].angle = 90
    /\ taskPointArray[1].AATStartRadial = 315
    /\ taskPointArray[1].AATFinishRadial = 45

----------------------------------------------------------------------------
(* C9 *)

\* C9: a pass of the loop for a point whose sector type is neither classic
\* nor window reports exactly one error, which names the point and the code,
\* emits no warning, leaves the settings and the conflict flag as they were,
\* still appends the point's waypoint and stores its index in its slot, and
\* leaves the loop running; a run that has returned has processed every
\* point and written all the profile keys, whatever the codes were.
C9_UnsupportedSectorTypeIsReported ==
    /\ [][ LET p == task'[i]
           IN  ( /\ PointStep
                 /\ p.sectorType # SECTOR_CLASSIC
                 /\ p.sectorType # SECTOR_WINDOW )
               => /\ Len(errors') = Len(errors) + 1
                  /\ errors'[Len(errors')].name = Name(i, tpNum)
                  /\ errors'[Len(errors')].code = Convert(p.sectorType)
                  /\ NewWarnings = <<>>
                  /\ settingsTask' = settingsTask
                  /\ tpsValid' = tpsValid
                  /\ Len(waypointArray') = Len(waypointArray) + 1
                  /\ waypointArray'[i].number = WAYPOINT_INDEX_OFFSET + i
                  /\ taskPointArray'[i - 1].Index = WAYPOINT_INDEX_OFFSET + i
                  /\ pc' = "loop" ]_vars
    /\ [](TaskDone =>
            /\ Len(task) = count - 1
            /\ ProfileComplete
            /\ Len(errors) =
                 Cardinality({ k \in 1 .. Len(task) :
                     task[k].sectorType \notin {SECTOR_CLASSIC, SECTOR_WINDOW} }))

\* a run whose second point had an unsupported code has gone on to the end
C9_Witness ==
    /\ TaskDone
    /\ count = 5
    /\ task[2].sectorType = 2
    /\ IsClassic(task[3]) /\ IsClassic(task[4])
    /\ Len(errors) = 1
    /\ errors[1].name = Name(2, tpNum)
    /\ errors[1].code = <<"2">>
    /\ ProfileComplete

----------------------------------------------------------------------------
(* C10 *)

\* C10: once PenaltyZonesProcess is past its entry, with zero declared
\* zones the only profile write is AirspaceFile = "" (two quote characters)
\* and the airspace file is neither opened nor written; with one or more
\* zones the only profile write is AirspaceFile = the quoted path of the
\* airspace file under pathPrefix, and the file is open and has its banner.
C10_AirspaceFileKey ==
    (call = "PenaltyZonesProcess" /\ pc # "entry") =>
      /\ Len(profile) = 1
      /\ profile[1][1] = "AirspaceFile"
      /\ IF pzCount = <<"0">>
         THEN /\ profile[1][2] = <<"\"", "\"">>
              /\ ~airspacesFile.open
              /\ airspacesFile.lines = <<>>
         ELSE /\ profile[1][2] =
                   IF pathPrefix = <<>>
                   THEN <<"\"", "Condor.txt", "\"">>
                   ELSE <<"\"">> \o pathPrefix \o <<"/", "Condor.txt", "\"">>
              /\ airspacesFile.open
              /\ Len(airspacesFile.lines) >= 3

\* a call with no zones has returned
C10_Witness ==
    /\ call = "PenaltyZonesProcess" /\ pc = "done"
    /\ pzCount = <<"0">>
    /\ profile = << <<"AirspaceFile", <<"\"", "\"">> >> >>
    /\ ~airspacesFile.open

----------------------------------------------------------------------------
(* C11 *)

\* the lines an airspace record takes in the file: the empty line that
\* separates it from what precedes, the class, name, ceiling and floor
\* lines, and the four boundary points
RecordLength == 9

\* line m (1-based) of record k (0-based) of the airspace file
RecordLine(k, m) == airspacesFile.lines[Len(Banner) + RecordLength * k + m]

\* C11: when PenaltyZonesProcess has returned from a task that declares
\* pzNum >= 1 zones, the airspace file holds the three banner lines and
\* then exactly pzNum records in input order, each set off by an empty
\* line; record k (0-based) is the class line "AC P", the name
\* "AN Penalty Zone k+1", the ceiling "AH <top>m AMSL" with the declared
\* top text, the floor "AL 0" when the declared base is 0 and
\* "AL <base>m AMSL" otherwise, and four "DP" lines for corners 0, 1, 2, 3
\* of zone k in that order.
C11_AirspaceRecords ==
    (call = "PenaltyZonesProcess" /\ pc = "done" /\ pzNum >= 1) =>
      /\ Len(zones) = pzNum
      /\ Len(airspacesFile.lines) = 3 + RecordLength * pzNum
      /\ SubSeq(airspacesFile.lines, 1, 3) = Banner
      /\ \A k \in 0 .. (pzNum - 1) :
           LET z == zones[k + 1]
               base == ParseUnsigned(z.base)
           IN  /\ RecordLine(k, 1) = <<>>
               /\ RecordLine(k, 2) = <<"AC P">>
               /\ RecordLine(k, 3) = <<"AN Penalty Zone ">> \o Convert(k + 1)
               /\ RecordLine(k, 4) = <<"AH ">> \o z.top \o <<"m AMSL">>
               /\ (base = 0 => RecordLine(k, 5) = <<"AL 0">>)
               /\ (base # 0 =>
                     RecordLine(k, 5) = <<"AL ">> \o Convert(base) \o <<"m AMSL">>)
               /\ \A j \in 0 .. 3 :
                     RecordLine(k, 6 + j) = <<"DP ">> \o CornerText(j, k)

\* two zones were written, the first with base text "00", the second with
\* base text "500"
C11_Witness ==
    /\ call = "PenaltyZonesProcess" /\ pc = "done"
    /\ pzCount = <<"2">>
    /\ Len(zones) = 2
    /\ zones[1].base = <<"0", "0">>
    /\ zones[2].base = <<"5", "0", "0">>
    /\ RecordLine(0, 3) = <<"AN Penalty Zone ", "1">>
    /\ RecordLine(0, 5) = <<"AL 0">>
    /\ RecordLine(1, 3) = <<"AN Penalty Zone ", "2">>
    /\ RecordLine(1, 4) = <<"AH ", "1", "5", "0", "0", "m AMSL">>
    /\ RecordLine(1, 5) = <<"AL ", "5", "0", "0", "m AMSL">>
    /\ RecordLine(1, 9) = <<"DP ", "PZPos", "3", "#", "1">>

----------------------------------------------------------------------------
(* C12 *)

\* point p sets neither the task sector type nor the task sector radius: a
\* window zone, an unrecognized sector code, or a classic point whose angle
\* is none of 90, 180, 270, 360
SetsNothing(p) == ~IsClassic(p) \/ p.angle \notin {90, 180, 270, 360}

\* C12 (as claimed): with AAT disabled, when every earlier intermediate
\* point set nothing, an intermediate classic point of angle 90 or 360 sets
\* the task sector type to the one it asks for and the task sector radius
\* to its own radius, emits no uniform radius/type warning, and leaves the
\* conflict flag as it was, so that it does not cause the global warning.
\* The code compares against the zero-initialised settingsTask from the
\* third point on, whether or not an earlier point has set it.
C12_ConflictOnlyAfterAnEarlierSetter ==
    [][ LET p == task'[i]
        IN  ( /\ PointStep
              /\ ~settingsTask.AATEnabled
              /\ Intermediate(i, tpNum)
              /\ IsClassic(p) /\ p.angle \in {90, 360}
              /\ \A k \in 2 .. (i - 1) : SetsNothing(task[k]) )
            => /\ settingsTask'.SectorType = Candidate(p.angle)
               /\ settingsTask'.SectorRadius = p.radius
               /\ ~UniformWarningFor(i)
               /\ tpsValid' = tpsValid ]_vars

----------------------------------------------------------------------------
(* C13 *)

\* the radials of a slot are not the 0/360 they are reset to
OwnRadials(slot) == slot.AATStartRadial # 0 \/ slot.AATFinishRadial # 360

\* point k has been read and is an intermediate classic point of an
\* AAT-enabled task with an angle other than 360
ReadAATSector(k) ==
    /\ settingsTask.AATEnabled
    /\ k \in 1 .. Len(task)
    /\ Intermediate(k, tpNum)
    /\ IsClassic(task[k])
    /\ task[k].angle # 360

\* C13: when AAT is enabled, the pass of the loop over an intermediate
\* classic point changes nothing but that point's slot: the task settings
\* (sector type and radius, start and finish fields) and the conflict flag
\* stay as they were and no warning or error is emitted.  At every moment
\* of a TaskProcess run a slot whose radials are not 0/360 is the slot of
\* an intermediate classic point of angle other than 360 read under AAT;
\* the start slot, the finish slot, every slot of type AAT circle and every
\* slot of an AAT-disabled task have start radial 0 and finish radial 360.
C13_AATPointsTouchOnlyTheirSlot ==
    /\ [][ ( /\ PointStep
             /\ settingsTask.AATEnabled
             /\ Intermediate(i, tpNum)
             /\ IsClassic(task'[i]) )
           => /\ settingsTask' = settingsTask
              /\ tpsValid' = tpsValid
              /\ NewWarnings = <<>>
              /\ errors' = errors
              /\ \A s \in DOMAIN taskPointArray :
                    s # i - 1 => taskPointArray'[s] = taskPointArray[s] ]_vars
    /\ [](call = "TaskProcess" =>
            \A s \in DOMAIN taskPointArray :
               LET slot == taskPointArray[s]
               IN  /\ OwnRadials(slot) => ReadAATSector(s + 1)
                   /\ ( \/ ~settingsTask.AATEnabled
                        \/ s + 1 = 1
                        \/ s + 1 = tpNum - 1
                        \/ slot.AATType = WAYPOINT_AAT_CIRCLE )
                      => (slot.AATStartRadial = 0 /\ slot.AATFinishRadial = 360))

\* an AAT-enabled run over a start, a 90-degree sector, a circle and a
\* finish has returned: the sector's slot has its own radials, the other
\* three slots have 0/360, and the sector settings are untouched
C13_Witness ==
    /\ TaskDone
    /\ settingsTask.AATEnabled
    /\ count = 5
    /\ \A k \in 1 .. 4 : IsClassic(task[k])
    /\ task[1].angle = 90 /\ task[4].angle = 90
    /\ task[2].angle = 90 /\ task[3].angle = 360
    /\ taskPointArray[1].AATType = WAYPOINT_AAT_SECTOR
    /\ OwnRadials(taskPointArray[1])
    /\ taskPointArray[2].AATType = WAYPOINT_AAT_CIRCLE
    /\ \A s \in {0, 2, 3} : ~OwnRadials(taskPointArray[s])
    /\ settingsTask.SectorType = 0 /\ settingsTask.SectorRadius = 0
    /\ settingsTask.StartType = START_SECTOR
    /\ settingsTask.FinishType = FINISH_SECTOR
    /\ tpsValid
    /\ warnings = <<>>

====
